---- MODULE Spec2Model ----
(***************************************************************************)
(* Chunk-level deduplicating file store (server.js).                       *)
(*                                                                         *)
(* Disk state: the chunks/ directory (one blob per digest) and the         *)
(* manifests/ directory (one JSON text per filename).  Memory state: the   *)
(* fileMeta Map and the fileSignatures Set, lost whenever the process      *)
(* stops and rebuilt by bootstrap().  Node runs each request handler to    *)
(* completion on one thread, so at most one request is in flight; pc is    *)
(* its position.  Disk writes can fail (writeFileSync throws) and the      *)
(* process can stop at any point, also between the open-with-truncate and  *)
(* the end of a write.                                                     *)
(***************************************************************************)
EXTENDS Integers, Sequences, FiniteSets, TLC

\* ---- bounds of the model -------------------------------------------------
\* CHUNK_SIZE is set to 10 * 10 at server.js:33; it is scaled down here with
\* the buffers so that multi-chunk files stay small.
NumBytes == 2
MaxLen == 2
NumNames == 2
CHUNK_SIZE == 1
MaxFaults == 1
MaxStops == 1
MaxUploads == 3
\* the chunker is also run on its own at every chunk size up to MaxChunkSize,
\* on buffers long enough for two full chunks and a shorter last one
MaxChunkSize == 3
MaxChunkLen == 7

Bytes == 0 .. (NumBytes - 1)
Names == 1 .. NumNames

RECURSIVE SeqsUpTo(_)
SeqsUpTo(n) ==
  IF n = 0 THEN {<<>>}
  ELSE LET S == SeqsUpTo(n - 1)
       IN S \cup {Append(s, b) : s \in {t \in S : Len(t) = n - 1}, b \in Bytes}

Buffers == SeqsUpTo(MaxLen)
ChunkBuffers == SeqsUpTo(MaxChunkLen)
ChunkSizes == 1 .. MaxChunkSize

\* ---- pure helpers --------------------------------------------------------
Min(a, b) == IF a < b THEN a ELSE b

\* buf.slice(off, off + size), off counted from 0
SliceAtShort(buf, off, size) == SubSeq(buf, off + 1, Min(off + size - 1, Len(buf)))
SliceAt(buf, off, size) == SubSeq(buf, off + 1, Min(off + size, Len(buf)))

\* buf.slice(off, off + CHUNK_SIZE)
Slice(buf, off) == SliceAt(buf, off, CHUNK_SIZE)

\* sha256 as a collision-free digest: bijective base-(NumBytes+1) numeral
RECURSIVE Hash(_)
Hash(data) ==
  IF data = <<>> THEN 0
  ELSE Hash(SubSeq(data, 1, Len(data) - 1)) * (NumBytes + 1) + data[Len(data)] + 1

\* for (off = 0; off < buf.length; off += CHUNK_SIZE) out.push({hash, data})
RECURSIVE ChunkFromAt(_, _, _)
ChunkFromAt(buf, off, size) ==
  IF off < Len(buf)
  THEN <<[hash |-> Hash(SliceAt(buf, off, size)), data |-> SliceAt(buf, off, size)]>>
         \o ChunkFromAt(buf, off + size, size)
  ELSE <<>>

RECURSIVE ChunkFromInclusive(_, _)
ChunkFromInclusive(buf, off) ==
  IF off <= Len(buf)
  THEN <<[hash |-> Hash(Slice(buf, off)), data |-> Slice(buf, off)]>>
         \o ChunkFromInclusive(buf, off + CHUNK_SIZE)
  ELSE <<>>

\* the loop at the configured CHUNK_SIZE
ChunkFrom(buf, off) == ChunkFromAt(buf, off, CHUNK_SIZE)

chunkAndHash(buf) == ChunkFrom(buf, 0)

\* chunks.map(c => c.hash)
HashesOf(cs) == [i \in 1 .. Len(cs) |-> cs[i].hash]

\* hashes.join('-'): the digests with a separator token between neighbours
Sep == -1
RECURSIVE Join(_)
Join(hs) ==
  IF Len(hs) = 0 THEN <<>>
  ELSE IF Len(hs) = 1 THEN <<hs[1]>>
  ELSE <<hs[1], Sep>> \o Join(Tail(hs))

\* JSON.stringify({filename, signature, chunkHashes}): the text of a manifest
Stringify(filename, signature, chunkHashes) ==
  <<"{", [filename |-> filename, signature |-> signature,
          chunkHashes |-> chunkHashes], "}">>

\* JSON.parse succeeds only on a complete object text
Parseable(text) == Len(text) = 3 /\ text[1] = "{" /\ text[3] = "}"
Parse(text) == text[2]

\* what an interrupted or failed write of `full` leaves in a file opened with
\* O_TRUNC: any strict prefix of the data
StrictPrefixes(full) == {SubSeq(full, 1, k) : k \in 0 .. (Len(full) - 1)}

\* Buffer.concat(buffers)
RECURSIVE Concat(_)
Concat(bufs) == IF bufs = <<>> THEN <<>> ELSE Head(bufs) \o Concat(Tail(bufs))

EmptyMap == [x \in {} |-> 0]
Put(f, k, v) == [x \in (DOMAIN f) \cup {k} |-> IF x = k THEN v ELSE f[x]]
Forget(f, k) == [x \in (DOMAIN f) \ {k} |-> f[x]]

\* ---- state ---------------------------------------------------------------
VARIABLES
  chunks,          \* chunks/ directory: digest -> bytes of <digest>.chunk
  manifests,       \* manifests/ directory: filename -> text of <filename>.json
  fileMeta,        \* Map filename -> {signature, chunkHashes}
  fileSignatures,  \* Set of signatures
  pc,              \* "idle" | "write" | "save" | "done" | "down"
  req,             \* the request being handled
  resp,            \* the response sent for it
  pre,             \* history: the stores as the current handler found them
  acked,           \* history: filename -> content of its last acknowledged
                   \*   upload, while no later upload of that filename began
  faults,          \* history: failed writes and interrupted uploads so far
  stops,           \* history: process stops so far
  uploads          \* history: uploads begun so far

vars == <<chunks, manifests, fileMeta, fileSignatures, pc, req, resp, pre,
          acked, faults, stops, uploads>>
disk == <<chunks, manifests>>
memory == <<fileMeta, fileSignatures>>
history == <<acked, faults, stops, uploads>>

Snapshot == [chunks |-> chunks, manifests |-> manifests,
             fileMeta |-> fileMeta, fileSignatures |-> fileSignatures,
             acked |-> acked]
NoSnapshot == [chunks |-> EmptyMap, manifests |-> EmptyMap,
               fileMeta |-> EmptyMap, fileSignatures |-> {}, acked |-> EmptyMap]

NoReq == [kind |-> "none", name |-> 0, buffer |-> <<>>, chunks |-> <<>>,
          hashes |-> <<>>, signature |-> <<>>, i |-> 0, wroteSomething |-> FALSE]
NoResp == [status |-> 0, error |-> "", wrote |-> FALSE, chunkCount |-> 0,
           body |-> <<>>, names |-> {}]

\* res.status(status).json({error})
Reply(status, error) == [NoResp EXCEPT !.status = status, !.error = error]

\* fs.existsSync(path.join(chunksDir, `${hash}.chunk`))
Exists(store, hash) == hash \in DOMAIN store

\* fileSignatures.has(signature)
HasNever(sigs, signature) == FALSE
Has(sigs, signature) == signature \in sigs

\* app.listen(PORT) is the last statement of the module: requests are taken
\* once the module body, bootstrap() included, has run, and between handlers
ListeningBeforeBootstrap == pc \in {"idle", "down"}
Listening == pc = "idle"

Init ==
  /\ chunks = EmptyMap
  /\ manifests = EmptyMap
  /\ fileMeta = EmptyMap
  /\ fileSignatures = {}
  /\ pc = "down"
  /\ req = NoReq
  /\ resp = NoResp
  /\ pre = NoSnapshot
  /\ acked = EmptyMap
  /\ faults = 0
  /\ stops = 0
  /\ uploads = 0

\* ---- POST /upload --------------------------------------------------------
\* if (!req.file) return res.status(400)
UploadNoFile ==
  /\ Listening
  /\ req' = [NoReq EXCEPT !.kind = "nofile"]
  /\ resp' = Reply(400, "nofile")
  /\ pre' = Snapshot
  /\ pc' = "done"
  /\ UNCHANGED <<disk, memory, history>>

\* chunkAndHash, hashes, signature, wroteSomething = false, the signature test
UploadStart(name, buffer) ==
  /\ Listening
  /\ LET cs == chunkAndHash(buffer)
         hs == HashesOf(cs)
     IN /\ req' = [kind |-> "upload", name |-> name, buffer |-> buffer,
                   chunks |-> cs, hashes |-> hs, signature |-> Join(hs),
                   i |-> 1, wroteSomething |-> FALSE]
        /\ pc' = IF Has(fileSignatures, Join(hs)) THEN "save" ELSE "write"
  /\ resp' = NoResp
  /\ pre' = Snapshot
  /\ acked' = Forget(acked, name)
  /\ uploads < MaxUploads
  /\ uploads' = uploads + 1
  /\ UNCHANGED <<disk, memory, faults, stops>>

InLoop == pc = "write" /\ req.i <= Len(req.chunks)
Cur == req.chunks[req.i]

\* forEach body, the chunk file is already there: nothing is written
ChunkSkip ==
  /\ InLoop
  /\ Exists(chunks, Cur.hash)
  /\ req' = [req EXCEPT !.i = @ + 1]
  /\ UNCHANGED <<disk, memory, pc, resp, pre, history>>

\* forEach body: fs.writeFileSync(p, data); wroteSomething = true
ChunkWriteAddsSignature ==
  /\ pc = "write" /\ req.i <= Len(req.chunks)
  /\ ~Exists(chunks, req.chunks[req.i].hash)
  /\ chunks' = Put(chunks, req.chunks[req.i].hash, req.chunks[req.i].data)
  /\ fileSignatures' = fileSignatures \cup {req.signature}
  /\ req' = [req EXCEPT !.i = @ + 1, !.wroteSomething = TRUE]
  /\ UNCHANGED <<manifests, fileMeta, pc, resp, pre, history>>
ChunkWrite ==
  /\ InLoop
  /\ ~Exists(chunks, Cur.hash)
  /\ chunks' = Put(chunks, Cur.hash, Cur.data)
  /\ req' = [req EXCEPT !.i = @ + 1, !.wroteSomething = TRUE]
  /\ UNCHANGED <<manifests, memory, pc, resp, pre, history>>

\* fs.writeFileSync throws: the exception leaves the handler and the error
\* handler answers 500.  The file was not created, or was created and holds
\* a strict prefix of the data.
ChunkWriteFail ==
  /\ InLoop
  /\ ~Exists(chunks, Cur.hash)
  /\ faults < MaxFaults
  /\ \/ chunks' = chunks
     \/ \E part \in StrictPrefixes(Cur.data) : chunks' = Put(chunks, Cur.hash, part)
  /\ pc' = "done"
  /\ resp' = Reply(500, "chunk")
  /\ faults' = faults + 1
  /\ UNCHANGED <<manifests, memory, req, pre, acked, stops, uploads>>

\* after the loop: fileSignatures.add(signature)
SignatureAdd ==
  /\ pc = "write"
  /\ req.i > Len(req.chunks)
  /\ fileSignatures' = fileSignatures \cup {req.signature}
  /\ pc' = "save"
  /\ UNCHANGED <<disk, fileMeta, req, resp, pre, history>>

NewMeta == [signature |-> req.signature, chunkHashes |-> req.hashes]
NewText == Stringify(req.name, req.signature, req.hashes)

\* res.json({message: wroteSomething ? ... : ..., filename, chunkCount})
UploadReplyFlipped(wroteSomething, hashes) ==
  [NoResp EXCEPT !.status = 200, !.wrote = ~wroteSomething,
                 !.chunkCount = Len(hashes)]
UploadReply(wroteSomething, hashes) ==
  [NoResp EXCEPT !.status = 200, !.wrote = wroteSomething,
                 !.chunkCount = Len(hashes)]

Ack == [buffer |-> req.buffer, hashes |-> req.hashes, signature |-> req.signature,
        run |-> TRUE,
        over |-> req.name \in DOMAIN pre.acked
                   /\ pre.acked[req.name].buffer # req.buffer]

\* 5b: fileMeta.set; saveManifest; res.json
ManifestSaveRespondsFirst ==
  /\ pc = "save"
  /\ fileMeta' = Put(fileMeta, req.name, NewMeta)
  /\ resp' = UploadReply(req.wroteSomething, req.hashes)
  /\ pc' = "done"
  /\ acked' = Put(acked, req.name, Ack)
  /\ UNCHANGED <<disk, fileSignatures, req, pre, faults, stops, uploads>>
ManifestSave ==
  /\ pc = "save"
  /\ fileMeta' = Put(fileMeta, req.name, NewMeta)
  /\ manifests' = Put(manifests, req.name, NewText)
  /\ resp' = UploadReply(req.wroteSomething, req.hashes)
  /\ pc' = "done"
  /\ acked' = Put(acked, req.name, Ack)
  /\ UNCHANGED <<chunks, fileSignatures, req, pre, faults, stops, uploads>>

\* 5b with saveManifest throwing: fileMeta.set has already run.  The file is
\* untouched (the open failed) or holds a strict prefix of the new text.
ManifestSaveFail ==
  /\ pc = "save"
  /\ faults < MaxFaults
  /\ fileMeta' = Put(fileMeta, req.name, NewMeta)
  /\ \/ manifests' = manifests
     \/ \E part \in StrictPrefixes(NewText) : manifests' = Put(manifests, req.name, part)
  /\ resp' = Reply(500, "manifest")
  /\ pc' = "done"
  /\ faults' = faults + 1
  /\ UNCHANGED <<chunks, fileSignatures, req, pre, acked, stops, uploads>>

\* ---- GET /download/:filename ---------------------------------------------
Missing(meta, store) ==
  {i \in 1 .. Len(meta.chunkHashes) : ~Exists(store, meta.chunkHashes[i])}

\* meta.chunkHashes.map(h => readFileSync(...)) then Buffer.concat
ReadAll(meta, store) ==
  Concat([i \in 1 .. Len(meta.chunkHashes) |-> store[meta.chunkHashes[i]]])

\* the whole handler as a function of the Map and the chunk directory
ReconstructSkipsMissing(meta, store, name) ==
  IF name \notin DOMAIN meta THEN Reply(404, "unknown")
  ELSE [NoResp EXCEPT !.status = 200,
          !.body = Concat([i \in 1 .. Len(meta[name].chunkHashes) |->
                     IF Exists(store, meta[name].chunkHashes[i])
                     THEN store[meta[name].chunkHashes[i]] ELSE <<>>])]
ReconstructUnknownAsEmpty(meta, store, name) ==
  IF name \notin DOMAIN meta THEN [NoResp EXCEPT !.status = 200]
  ELSE IF Missing(meta[name], store) # {} THEN Reply(500, "reconstruct")
  ELSE [NoResp EXCEPT !.status = 200, !.body = ReadAll(meta[name], store)]
Reconstruct(meta, store, name) ==
  IF name \notin DOMAIN meta THEN Reply(404, "unknown")
  ELSE IF Missing(meta[name], store) # {} THEN Reply(500, "reconstruct")
  ELSE [NoResp EXCEPT !.status = 200, !.body = ReadAll(meta[name], store)]

Download(name) ==
  /\ Listening
  /\ req' = [NoReq EXCEPT !.kind = "download", !.name = name]
  /\ resp' = Reconstruct(fileMeta, chunks, name)
  /\ pre' = Snapshot
  /\ pc' = "done"
  /\ UNCHANGED <<disk, memory, history>>

\* ---- GET /list -----------------------------------------------------------
ListFilenames(meta) == DOMAIN meta

List ==
  /\ Listening
  /\ req' = [NoReq EXCEPT !.kind = "list"]
  /\ resp' = [NoResp EXCEPT !.status = 200, !.names = ListFilenames(fileMeta)]
  /\ pre' = Snapshot
  /\ pc' = "done"
  /\ UNCHANGED <<disk, memory, history>>

\* the handler has returned; the server waits for the next request
Ready ==
  /\ pc = "done"
  /\ pc' = "idle"
  /\ req' = NoReq
  /\ resp' = NoResp
  /\ pre' = NoSnapshot
  /\ UNCHANGED <<disk, memory, history>>

\* ---- process stop and restart --------------------------------------------
\* the Map and the Set live in the process: they are gone when it stops.
\* pre keeps the stores as they are at the stop, and the acknowledged uploads
\* as the interrupted handler, if any, found them.
Lost ==
  /\ stops < MaxStops
  /\ fileMeta' = EmptyMap
  /\ fileSignatures' = {}
  /\ pc' = "down"
  /\ resp' = NoResp
  /\ pre' = [Snapshot EXCEPT !.acked = IF pc = "idle" THEN acked ELSE pre.acked]
  /\ acked' = [n \in DOMAIN acked |-> [acked[n] EXCEPT !.run = FALSE]]
  /\ stops' = stops + 1

\* the process stops between two requests
Stop ==
  /\ pc = "idle"
  /\ Lost
  /\ req' = [NoReq EXCEPT !.kind = "stop"]
  /\ UNCHANGED <<disk, faults, uploads>>

\* the upload that the stop cut short
Interrupted == [NoReq EXCEPT !.kind = "crash", !.name = req.name,
                             !.buffer = req.buffer]

\* the process stops inside an upload, outside any write
Crash ==
  /\ pc \in {"write", "save"}
  /\ faults < MaxFaults
  /\ Lost
  /\ req' = Interrupted
  /\ faults' = faults + 1
  /\ UNCHANGED <<disk, uploads>>

\* the process stops inside fs.writeFileSync(p, data)
CrashInChunkWrite ==
  /\ InLoop
  /\ ~Exists(chunks, Cur.hash)
  /\ faults < MaxFaults
  /\ \E part \in StrictPrefixes(Cur.data) : chunks' = Put(chunks, Cur.hash, part)
  /\ Lost
  /\ req' = Interrupted
  /\ faults' = faults + 1
  /\ UNCHANGED <<manifests, uploads>>

\* the process stops inside saveManifest's fs.writeFileSync
CrashInManifestWrite ==
  /\ pc = "save"
  /\ faults < MaxFaults
  /\ \E part \in StrictPrefixes(NewText) : manifests' = Put(manifests, req.name, part)
  /\ Lost
  /\ req' = Interrupted
  /\ faults' = faults + 1
  /\ UNCHANGED <<chunks, uploads>>

\* bootstrap(): every parseable manifest goes into fileMeta and fileSignatures
Loadable(dir) == {f \in DOMAIN dir : Parseable(dir[f])}
BootMetaNothing(dir) == EmptyMap
BootMetaStopsAtCorrupt(dir) ==
  LET ok == {f \in Loadable(dir) : \A g \in DOMAIN dir : g <= f => Parseable(dir[g])}
  IN [n \in {Parse(dir[f]).filename : f \in ok} |->
        LET f == CHOOSE g \in ok : Parse(dir[g]).filename = n
        IN [signature |-> Parse(dir[f]).signature,
            chunkHashes |-> Parse(dir[f]).chunkHashes]]
BootMeta(dir) ==
  [n \in {Parse(dir[f]).filename : f \in Loadable(dir)} |->
     LET f == CHOOSE g \in Loadable(dir) : Parse(dir[g]).filename = n
     IN [signature |-> Parse(dir[f]).signature,
         chunkHashes |-> Parse(dir[f]).chunkHashes]]
BootSignatures(dir) == {Parse(dir[f]).signature : f \in Loadable(dir)}

bootstrap ==
  /\ pc = "down"
  /\ fileMeta' = BootMeta(manifests)
  /\ fileSignatures' = BootSignatures(manifests)
  /\ pc' = "done"
  /\ req' = [req EXCEPT !.kind = "boot"]
  /\ UNCHANGED <<disk, resp, pre, history>>

\* ---- outside the program: somebody removes a chunk file ------------------
DeleteChunk ==
  /\ pc = "idle"
  /\ \E h \in DOMAIN chunks : chunks' = Forget(chunks, h)
  /\ UNCHANGED <<manifests, memory, pc, req, resp, pre, history>>

Next ==
  \/ UploadNoFile
  \/ \E name \in Names, buffer \in Buffers : UploadStart(name, buffer)
  \/ ChunkSkip
  \/ ChunkWrite
  \/ ChunkWriteFail
  \/ SignatureAdd
  \/ ManifestSave
  \/ ManifestSaveFail
  \/ \E name \in Names : Download(name)
  \/ List
  \/ Ready
  \/ Stop
  \/ Crash
  \/ CrashInChunkWrite
  \/ CrashInManifestWrite
  \/ bootstrap

Spec == Init /\ [][Next]_vars

NextDel == Next \/ DeleteChunk

SpecDel == Init /\ [][NextDel]_vars

\* ---- the upload handler at any chunk size --------------------------------
\* chunkAndHash with CHUNK_SIZE = size
chunkAndHashAt(buf, size) == ChunkFromAt(buf, 0, size)

\* the first upload of a fresh store, no write failing, run from its first
\* statement to res.json: every chunk file is new and is written, the
\* signature is new and is added, the manifest is recorded and saved
IngestAtSize(name, buffer, size) ==
  /\ Listening
  /\ uploads = 0
  /\ LET cs == chunkAndHashAt(buffer, size)
         hs == HashesOf(cs)
     IN /\ req' = [kind |-> "upload", name |-> name, buffer |-> buffer,
                   chunks |-> cs, hashes |-> hs, signature |-> Join(hs),
                   i |-> Len(cs) + 1, wroteSomething |-> cs # <<>>,
                   size |-> size]
        /\ chunks' = [h \in {cs[i].hash : i \in 1 .. Len(cs)} |->
                        (CHOOSE c \in {cs[i] : i \in 1 .. Len(cs)} : c.hash = h).data]
        /\ fileSignatures' = fileSignatures \cup {Join(hs)}
        /\ fileMeta' = Put(fileMeta, name, [signature |-> Join(hs), chunkHashes |-> hs])
        /\ manifests' = Put(manifests, name, Stringify(name, Join(hs), hs))
        /\ resp' = UploadReply(cs # <<>>, hs)
        /\ acked' = Put(acked, name, [buffer |-> buffer, hashes |-> hs,
                                      signature |-> Join(hs), run |-> TRUE,
                                      over |-> FALSE])
  /\ pre' = Snapshot
  /\ pc' = "done"
  /\ uploads' = 1
  /\ UNCHANGED <<faults, stops>>

NextChunk ==
  \/ bootstrap
  \/ \E name \in Names, buffer \in ChunkBuffers, size \in ChunkSizes :
       IngestAtSize(name, buffer, size)
  \/ \E name \in Names : Download(name)
  \/ Ready

SpecChunk == Init /\ [][NextChunk]_vars

\* ---- the claims ----------------------------------------------------------
UploadDone == pc = "done" /\ req.kind = "upload"
UploadOk == UploadDone /\ resp.status = 200
DownloadDone == pc = "done" /\ req.kind = "download"
StoresAsFound ==
  /\ chunks = pre.chunks
  /\ manifests = pre.manifests
  /\ fileMeta = pre.fileMeta
  /\ fileSignatures = pre.fileSignatures

\* C1: round trip.  Whenever a download is answered for a filename whose last
\* upload was acknowledged (and no upload of that filename began since), the
\* answer is 200 with exactly the uploaded bytes.
C1_RoundTrip ==
  (DownloadDone /\ req.name \in DOMAIN acked)
    => (resp.status = 200 /\ resp.body = acked[req.name].buffer)

\* C2: crash-recovery equivalence.  After a history of successful uploads
\* only, a stop followed by bootstrap gives back the same set of filenames
\* and, for every filename, the same answer to a download as just before the
\* stop.
C2_CrashRecovery ==
  (pc = "done" /\ req.kind = "boot" /\ faults = 0)
    => /\ ListFilenames(fileMeta) = ListFilenames(pre.fileMeta)
       /\ \A n \in Names :
            Reconstruct(fileMeta, chunks, n) = Reconstruct(pre.fileMeta, pre.chunks, n)

C2_Witness ==
  /\ pc = "done" /\ req.kind = "boot" /\ faults = 0
  /\ Cardinality(DOMAIN fileMeta) = NumNames
  /\ \E n \in DOMAIN fileMeta : Len(fileMeta[n].chunkHashes) > 1

\* C3: idempotence.  A successful upload of the bytes that the same filename
\* was acknowledged with earlier in this process run computes the same digest
\* sequence and signature, reports that no new chunk was written, and leaves
\* the chunk directory as it found it.
C3_Idempotent ==
  (/\ UploadOk
   /\ req.name \in DOMAIN pre.acked
   /\ pre.acked[req.name].run
   /\ pre.acked[req.name].buffer = req.buffer)
    => /\ req.hashes = pre.acked[req.name].hashes
       /\ req.signature = pre.acked[req.name].signature
       /\ resp.wrote = FALSE
       /\ chunks = pre.chunks

C3_Witness ==
  /\ UploadOk
  /\ req.name \in DOMAIN pre.acked
  /\ pre.acked[req.name].run
  /\ pre.acked[req.name].buffer = req.buffer
  /\ Len(req.hashes) > 1

\* C4: overwrite.  Whenever a download is answered for a filename whose last
\* acknowledged upload replaced different acknowledged content, the Map holds
\* that filename and the answer is 200 with the bytes of the later upload,
\* also after a stop and bootstrap.
C4_Overwrite ==
  (DownloadDone /\ req.name \in DOMAIN acked /\ acked[req.name].over)
    => /\ req.name \in DOMAIN fileMeta
       /\ fileMeta[req.name].chunkHashes = acked[req.name].hashes
       /\ resp.status = 200
       /\ resp.body = acked[req.name].buffer

\* C5: corruption detection.  A download of a known filename one of whose
\* chunk files is absent is answered 500 with no bytes.
C5_CorruptStore ==
  (/\ DownloadDone
   /\ req.name \in DOMAIN pre.fileMeta
   /\ Missing(pre.fileMeta[req.name], pre.chunks) # {})
    => (resp.status = 500 /\ resp.error = "reconstruct" /\ resp.body = <<>>)

C5_Witness ==
  /\ DownloadDone
  /\ req.name \in DOMAIN pre.fileMeta
  /\ Missing(pre.fileMeta[req.name], pre.chunks) # {}
  /\ \E i \in 1 .. Len(pre.fileMeta[req.name].chunkHashes) :
       /\ i \notin Missing(pre.fileMeta[req.name], pre.chunks)
       /\ pre.chunks[pre.fileMeta[req.name].chunkHashes[i]] # <<>>

\* C6 as stated: an upload with an empty buffer is answered 400 and changes
\* nothing.
C6_EmptyRejected ==
  (UploadDone /\ req.buffer = <<>>) => (resp.status = 400 /\ StoresAsFound)

\* C6 amended: an upload with no file part is answered 400 and changes
\* nothing; an upload with an empty buffer is never answered 400, and when it
\* succeeds it reports zero chunks and no chunk written, leaves the chunk
\* directory as found, and records the manifest with the empty chunk list
\* and the empty signature on disk, in the Map and in the Set.
C6_EmptyAccepted ==
  /\ (pc = "done" /\ req.kind = "nofile") => (resp.status = 400 /\ StoresAsFound)
  /\ (UploadDone /\ req.buffer = <<>>) => resp.status # 400
  /\ (UploadOk /\ req.buffer = <<>>)
       => /\ resp.chunkCount = 0
          /\ resp.wrote = FALSE
          /\ chunks = pre.chunks
          /\ fileMeta[req.name] = [signature |-> <<>>, chunkHashes |-> <<>>]
          /\ manifests[req.name] = Stringify(req.name, <<>>, <<>>)
          /\ <<>> \in fileSignatures

C6_Witness == UploadOk /\ req.buffer = <<>> /\ req.name \notin DOMAIN pre.fileMeta

\* C7: no partial commit.  When an upload is aborted by a failed chunk
\* write, the Set, the Map and the manifest directory are as the call found
\* them, the signature is not in the Set, every chunk file that existed
\* keeps its bytes, and every new chunk file is one of this upload's chunks.
C7_NoPartialCommit ==
  (UploadDone /\ resp.status = 500 /\ resp.error = "chunk")
    => /\ fileSignatures = pre.fileSignatures
       /\ ~Has(fileSignatures, req.signature)
       /\ fileMeta = pre.fileMeta
       /\ manifests = pre.manifests
       /\ \A d \in DOMAIN pre.chunks : d \in DOMAIN chunks /\ chunks[d] = pre.chunks[d]
       /\ \A d \in DOMAIN chunks \ DOMAIN pre.chunks :
            \E i \in 1 .. Len(req.hashes) : req.hashes[i] = d

C7_Witness ==
  /\ UploadDone /\ resp.status = 500 /\ resp.error = "chunk"
  /\ req.i > 1 /\ req.wroteSomething
  /\ DOMAIN chunks # DOMAIN pre.chunks

\* C8: chunk integrity.  Every chunk file holds bytes whose digest is its
\* name.
C8_ChunkIntegrity == \A d \in DOMAIN chunks : Hash(chunks[d]) = d

\* C9: deduplication across filenames.  A successful upload of bytes that
\* another filename is acknowledged with writes no chunk file, reports that
\* no new chunk was written, records the manifest on disk and in the Map, and
\* both filenames then download as those bytes.
C9_DedupAcrossNames ==
  \A n1 \in Names :
    (/\ UploadOk
     /\ n1 # req.name
     /\ n1 \in DOMAIN pre.acked
     /\ pre.acked[n1].buffer = req.buffer)
      => /\ chunks = pre.chunks
         /\ resp.wrote = FALSE
         /\ manifests[req.name] = NewText
         /\ fileMeta[req.name] = NewMeta
         /\ \A n \in {n1, req.name} :
              /\ Reconstruct(fileMeta, chunks, n).status = 200
              /\ Reconstruct(fileMeta, chunks, n).body = req.buffer

\* C10: a download of a filename the Map does not hold is answered 404 with
\* no bytes and leaves the four stores as it found them.
C10_NotFound ==
  (DownloadDone /\ req.name \notin DOMAIN pre.fileMeta)
    => (resp.status = 404 /\ resp.body = <<>> /\ StoresAsFound)

C10_Witness ==
  /\ DownloadDone
  /\ req.name \notin DOMAIN pre.fileMeta
  /\ req.name \in DOMAIN manifests
  /\ chunks # EmptyMap

\* C11: the chunker cuts a buffer of length L at chunk size S into ceil(L/S)
\* chunks in offset order, each of length S except the last, which has between
\* 1 and S bytes; the chunks concatenated are the buffer; the manifest's
\* chunkHashes are the chunks' digests in that order, the reported chunkCount
\* is their number, and the signature is the digests with one separator
\* between neighbours.
C11_Chunker ==
  (UploadOk /\ "size" \in DOMAIN req) =>
    LET L == Len(req.buffer)
        S == req.size
        cs == req.chunks
        n == Len(cs)
        m == fileMeta[req.name]
    IN /\ n * S >= L /\ (n - 1) * S < L
       /\ \A i \in 1 .. n :
            /\ Len(cs[i].data) = IF i < n THEN S ELSE L - (n - 1) * S
            /\ Len(cs[i].data) \in 1 .. S
            /\ \A k \in 1 .. Len(cs[i].data) : cs[i].data[k] = req.buffer[(i - 1) * S + k]
            /\ m.chunkHashes[i] = Hash(cs[i].data)
       /\ Concat([i \in 1 .. n |-> cs[i].data]) = req.buffer
       /\ Len(m.chunkHashes) = n
       /\ resp.chunkCount = n
       /\ Parse(manifests[req.name]).chunkHashes = m.chunkHashes
       /\ Len(m.signature) = IF n = 0 THEN 0 ELSE 2 * n - 1
       /\ \A j \in 1 .. Len(m.signature) :
            m.signature[j] = IF j % 2 = 1 THEN m.chunkHashes[(j + 1) \div 2] ELSE Sep

\* two full chunks and a shorter last one, as 10, 10, 5 for S = 10 and L = 25
C11_Witness ==
  /\ UploadOk /\ "size" \in DOMAIN req
  /\ req.size = 3 /\ Len(req.buffer) = 7
  /\ Len(req.chunks) = 3
  /\ Len(req.chunks[3].data) = 1
  /\ req.chunks[1].hash # req.chunks[2].hash

\* C12: whenever an upload has reported success, the manifest of that very
\* call is the text of <filename>.json, and every chunk it lists has a file in
\* the chunk directory.
C12_DurableBeforeAck ==
  UploadOk =>
    /\ req.name \in DOMAIN manifests
    /\ Parseable(manifests[req.name])
    /\ Parse(manifests[req.name]) = [filename |-> req.name,
                                      signature |-> req.signature,
                                      chunkHashes |-> req.hashes]
    /\ \A i \in 1 .. Len(req.hashes) : Exists(chunks, req.hashes[i])

\* a success that replaced an older manifest and wrote chunks
C12_Witness ==
  /\ UploadOk
  /\ req.name \in DOMAIN pre.manifests
  /\ pre.manifests[req.name] # manifests[req.name]
  /\ Len(req.hashes) = 2
  /\ resp.wrote

\* C13: the manifest is saved before fileMeta is updated: whatever fileMeta
\* holds for a filename is already the text of that filename's manifest file,
\* and an upload whose manifest save failed leaves fileMeta as it found it.
C13_SaveBeforeIndex ==
  /\ \A n \in DOMAIN fileMeta :
       /\ n \in DOMAIN manifests
       /\ manifests[n] = Stringify(n, fileMeta[n].signature, fileMeta[n].chunkHashes)
  /\ (UploadDone /\ resp.status = 500 /\ resp.error = "manifest") =>
       fileMeta = pre.fileMeta

\* C14: fileSignatures keeps the signature of every upload that succeeded,
\* also across a restart and also when the filename was uploaded again with
\* other content: after bootstrap it holds every signature it held at the stop.
C14_SignaturesKept ==
  (pc = "done" /\ req.kind = "boot" /\ faults = 0) =>
    pre.fileSignatures \subseteq fileSignatures

\* C15: whatever mix of complete and truncated manifest files the directory
\* holds, bootstrap runs to its end; afterwards fileMeta holds exactly the
\* parseable manifests, keyed by their filename field, and fileSignatures
\* exactly their signatures.  A corrupt manifest is skipped and does not stop
\* the ones after it from loading.
C15_BootstrapLenientExact ==
  /\ (pc = "down") => ENABLED bootstrap
  /\ (pc = "done" /\ req.kind = "boot") =>
       /\ \A f \in DOMAIN manifests : Parseable(manifests[f]) =>
            /\ Parse(manifests[f]).filename \in DOMAIN fileMeta
            /\ fileMeta[Parse(manifests[f]).filename] =
                 [signature |-> Parse(manifests[f]).signature,
                  chunkHashes |-> Parse(manifests[f]).chunkHashes]
            /\ Parse(manifests[f]).signature \in fileSignatures
       /\ \A n \in DOMAIN fileMeta : \E f \in DOMAIN manifests :
            Parseable(manifests[f]) /\ Parse(manifests[f]).filename = n
       /\ \A sg \in fileSignatures : \E f \in DOMAIN manifests :
            Parseable(manifests[f]) /\ Parse(manifests[f]).signature = sg

\* a truncated manifest listed before a complete one, which was loaded
C15_Witness ==
  /\ pc = "done" /\ req.kind = "boot"
  /\ \E f, g \in DOMAIN manifests :
       /\ f < g
       /\ ~Parseable(manifests[f])
       /\ Parseable(manifests[g])
       /\ Parse(manifests[g]).filename \in DOMAIN fileMeta
       /\ Len(Parse(manifests[g]).chunkHashes) > 0

\* C16: in every run of the process bootstrap runs to its end once, as the
\* first step, before any request is handled: the only step of a process that
\* has just started is bootstrap, bootstrap runs at no other moment, and every
\* handler finds every parseable manifest of the disk already in fileMeta and
\* its signature in fileSignatures.
Handling ==
  \/ pc \in {"write", "save"}
  \/ pc = "done" /\ req.kind \in {"upload", "download", "list", "nofile"}
IndexesLoaded ==
  \A f \in DOMAIN pre.manifests : Parseable(pre.manifests[f]) =>
    /\ Parse(pre.manifests[f]).filename \in DOMAIN pre.fileMeta
    /\ Parse(pre.manifests[f]).signature \in pre.fileSignatures
C16_BootstrapFirst ==
  /\ [](Handling => IndexesLoaded)
  /\ [][(pc = "down") => (pc' = "done" /\ req'.kind = "boot")]_vars
  /\ [][(pc' = "done" /\ req'.kind = "boot") => (pc = "down")]_vars

\* a download answered in a second run from what bootstrap loaded
C16_Witness ==
  /\ DownloadDone
  /\ stops > 0
  /\ req.name \in DOMAIN acked
  /\ ~acked[req.name].run
  /\ resp.status = 200
  /\ Len(resp.body) = 2

\* C17: an upload whose signature is already in fileSignatures tests no chunk
\* file and writes none: the chunk directory is as the handler found it and
\* the answer reports no new chunk.  So a chunk file that somebody removed is
\* not brought back by uploading the same content again, and the download of
\* that filename still fails.
C17_SignatureFastPath ==
  (UploadDone /\ req.signature \in pre.fileSignatures) =>
    /\ chunks = pre.chunks
    /\ ~req.wroteSomething
    /\ req.i = 1
    /\ resp.status = 200 =>
         /\ ~resp.wrote
         /\ (\E i \in 1 .. Len(req.hashes) : ~Exists(pre.chunks, req.hashes[i])) =>
              Reconstruct(fileMeta, chunks, req.name).status = 500

\* the same content uploaded again after one of its chunk files was removed
C17_Witness ==
  /\ UploadOk
  /\ req.signature \in pre.fileSignatures
  /\ req.name \in DOMAIN pre.fileMeta
  /\ pre.fileMeta[req.name].chunkHashes = req.hashes
  /\ Len(req.hashes) = 2
  /\ ~Exists(chunks, req.hashes[2])
  /\ Reconstruct(fileMeta, chunks, req.name).status = 500

\* C18: when two uploads of one filename are in flight together, each takes
\* effect as one indivisible step: once both handlers have run, fileMeta and
\* the manifest file of that filename hold the manifest of one and the same
\* of the two requests, and a download returns the whole bytes of one of the
\* two uploads, never a mixture or a part.
C18_NoLostUpdate ==
  (UploadDone /\ req.name \in DOMAIN pre.acked) =>
    /\ req.name \in DOMAIN fileMeta
    /\ req.name \in DOMAIN manifests
    /\ manifests[req.name] = Stringify(req.name, fileMeta[req.name].signature,
                                       fileMeta[req.name].chunkHashes)
    /\ fileMeta[req.name].chunkHashes \in {pre.acked[req.name].hashes, req.hashes}
    /\ Reconstruct(fileMeta, chunks, req.name).status = 200
    /\ Reconstruct(fileMeta, chunks, req.name).body
         \in {pre.acked[req.name].buffer, req.buffer}

\* C19: with uploads, failing chunk and manifest writes, stops at any point
\* and restarts, but nobody removing files: every digest listed in fileMeta
\* or in a parseable manifest file has a chunk file, every signature in
\* fileSignatures is made of digests that all have one, and so the download of
\* every listed filename finds all its chunk files.
C19_ReferentialIntegrity ==
  /\ \A n \in DOMAIN fileMeta :
       /\ \A i \in 1 .. Len(fileMeta[n].chunkHashes) :
            Exists(chunks, fileMeta[n].chunkHashes[i])
       /\ Reconstruct(fileMeta, chunks, n).status = 200
  /\ \A f \in DOMAIN manifests : Parseable(manifests[f]) =>
       \A i \in 1 .. Len(Parse(manifests[f]).chunkHashes) :
         Exists(chunks, Parse(manifests[f]).chunkHashes[i])
  /\ \A sg \in fileSignatures : \A j \in 1 .. Len(sg) :
       (j % 2 = 1) => Exists(chunks, sg[j])

\* after a stop inside a chunk write and a restart, with a two-chunk file listed
C19_Witness ==
  /\ pc = "done" /\ req.kind = "boot"
  /\ faults > 0
  /\ \E d \in DOMAIN chunks : Hash(chunks[d]) # d
  /\ \E n \in DOMAIN fileMeta : Len(fileMeta[n].chunkHashes) = 2
  /\ \E sg \in fileSignatures : Len(sg) = 3

\* C20: when an upload of a filename was acknowledged and the process later
\* stops inside another upload of that filename, at any point, also in the
\* middle of the manifest write, then after the restart the filename is still
\* listed and its download returns the bytes of the first or of the second
\* upload.
C20_AckedSurvivesCrash ==
  (pc = "done" /\ req.kind = "boot" /\ req.name \in DOMAIN pre.acked) =>
    /\ req.name \in ListFilenames(fileMeta)
    /\ Reconstruct(fileMeta, chunks, req.name).status = 200
    /\ Reconstruct(fileMeta, chunks, req.name).body
         \in {pre.acked[req.name].buffer, req.buffer}

====
